---- MODULE Spec2Model ----
(***************************************************************************)
(* Model of the ABSA utilities of nlp_architect/models/libert/absa_utils.py *)
(* (reading the CoNLL-like CSV, the dependency-head alignment and the      *)
(* feature conversion).  Python lists are sequences; a Python index i is   *)
(* position i + 1 of the sequence.                                         *)
(***************************************************************************)
EXTENDS Integers, Sequences, FiniteSets, TLC

\* ------------------------------------------------------------------ bounds
MaxWords == 2
MaxSubToks == 2
MaxHeads == 2
MaxArcs == 3
MaxDim == 66
MaxRows == 3
MaxSeqLen == 4
MaxExamples == 1
MaxEpochs == 2
MaxDatasets == 2
MaxSeeds == 2

\* --------------------------------------------------------- Python helpers
Min(x, y) == IF x < y THEN x ELSE y
Max(x, y) == IF x > y THEN x ELSE y

\* list.insert(i, x) for i >= 0: an index past the end appends
PyInsert(s, i, x) ==
    LET k == Min(i, Len(s))
    IN  SubSeq(s, 1, k) \o <<x>> \o SubSeq(s, k + 1, Len(s))

\* [v] * k
Repeat(v, k) == [j \in 1..Max(k, 0) |-> v]

\* variant: the inner loops run over range(0, len(l))
RangeFrom0(l) == Len(l)

\* len(range(1, len(l))): the number of iterations of the inner loops
RangeFrom1(l) == Max(Len(l) - 1, 0)

\* sum(len(l) for l in ls)
RECURSIVE TotalLen(_)
TotalLen(ls) == IF Len(ls) = 0 THEN 0 ELSE Len(Head(ls)) + TotalLen(Tail(ls))

\* np.array(rows) of a list of equally long rows
NpArray(rows) ==
    [shape |-> <<Len(rows), IF Len(rows) = 0 THEN 0 ELSE Len(rows[1])>>,
     data  |-> rows]

\* a[i][j] with Python (0-based) indices
At(m, i, j) == m[i + 1][j + 1]

\* ----------------------------------------------------- binarize (143-148)
\* variant: the vectors have length len(preds)
binarizeShort(ps) ==
    [k \in 1..Len(ps) |->
        [c \in 1..Len(ps) |-> IF c - 1 = ps[k] THEN 1 ELSE 0]]

binarize(ps) ==
    [k \in 1..Len(ps) |->
        [c \in 1..(Len(ps) + 1) |-> IF c - 1 = ps[k] THEN 1 ELSE 0]]

\* `i in head`
PyIn(i, head) == \E q \in 1..Len(head) : head[q] = i

\* ------------------------------------------- binarize_multi_hot (150-175)
\* variant: columns counted from 1
MultiHotVecFromOne(head, n) ==
    IF Len(head) = 0
    THEN Repeat(1, n + 1)
    ELSE [c \in 1..(n + 1) |-> IF PyIn(c, head) THEN 1 ELSE 0]

\* variant: without the special handling of a token with no heads
MultiHotVecPlain(head, n) ==
    [c \in 1..(n + 1) |-> IF PyIn(c - 1, head) THEN 1 ELSE 0]

MultiHotVec(head, n) ==
    IF Len(head) = 0
    THEN Repeat(1, n + 1)
    ELSE [c \in 1..(n + 1) |-> IF PyIn(c - 1, head) THEN 1 ELSE 0]

binarize_multi_hot(hs) ==
    [k \in 1..Len(hs) |-> MultiHotVec(hs[k], Len(hs))]

\* ------------------------------------- apply_heads_to_subtokens (124-141)
\* line 128 / 130: the row inserted for a further sub-token
SubTokenRow(row, zero) == IF zero THEN [j \in 1..Len(row) |-> 0] ELSE row

\* lines 126-131: the inner loop for word i, k iterations left
RECURSIVE InsertRows(_, _, _, _)
InsertRows(h, i, k, zero) ==
    IF k = 0 THEN h
    ELSE InsertRows(PyInsert(h, i + 1, SubTokenRow(h[i + 1], zero)), i, k - 1, zero)

\* lines 125-131: for i in range(len(sub_tokens) - 1, -1, -1)
RECURSIVE ExpandRows(_, _, _, _)
ExpandRows(h, st, i, zero) ==
    IF i < 0 THEN h
    ELSE ExpandRows(InsertRows(h, i, RangeFrom1(st[i + 1]), zero), st, i - 1, zero)

\* variant: the zero is inserted before the column of word i
RECURSIVE InsertZerosBefore(_, _, _)
InsertZerosBefore(row, i, k) ==
    IF k = 0 THEN row ELSE InsertZerosBefore(PyInsert(row, i + 1, 0), i, k - 1)

\* lines 136-137: the inner loop on one row for word i
RECURSIVE InsertZeros(_, _, _)
InsertZeros(row, i, k) ==
    IF k = 0 THEN row ELSE InsertZeros(PyInsert(row, i + 2, 0), i, k - 1)

\* lines 135-137: for i in range(len(sub_tokens) - 1, -1, -1) on one row
RECURSIVE ExpandRow(_, _, _)
ExpandRow(row, st, i) ==
    IF i < 0 THEN row
    ELSE ExpandRow(InsertZeros(row, i, RangeFrom1(st[i + 1])), st, i - 1)

\* lines 133-137: every row of the list is extended in place
ExpandColumns(h, st) == [r \in 1..Len(h) |-> ExpandRow(h[r], st, Len(st) - 1)]

\* line 140: heads.insert(0, [0] * (len(heads) + 1))
InsertClsRow(h) == PyInsert(h, 0, Repeat(0, Len(h) + 1))

\* the list `heads` as the call leaves it (the function works in place)
HeadsAfterApply(h, st, zero) ==
    InsertClsRow(ExpandColumns(ExpandRows(h, st, Len(st) - 1, zero), st))

\* line 141: the returned array
apply_heads_to_subtokens(h, st, zero) == NpArray(HeadsAfterApply(h, st, zero))

\* ------------------------------------------------------ pad_heads (119-122)
PadSize == 64

\* the shape of x[:k1, :k2] for non-negative stops
SliceShape(shape, k1, k2) == <<Min(shape[1], k1), Min(shape[2], k2)>>

\* variant: the right-hand side is a, not a[:64, :64]
PadSourceWhole(a) == a

\* a[:64, :64], the right-hand side of line 121
PadSource(a) ==
    LET sh == SliceShape(a.shape, PadSize, PadSize)
    IN  [shape |-> sh,
         data  |-> [i \in 1..sh[1] |-> [j \in 1..sh[2] |-> a.data[i][j]]]]

\* target[:a.shape[0], :a.shape[1]], the region assigned by line 121
PadRegion(a) == SliceShape(<<PadSize, PadSize>>, a.shape[1], a.shape[2])

\* numpy assigns a value to a region when each dimension agrees or is 1
Broadcastable(vshape, rshape) ==
    \A d \in 1..2 : vshape[d] = rshape[d] \/ vshape[d] = 1

\* line 121 raises ValueError when the shapes cannot be broadcast
PadRaises(a) == ~Broadcastable(PadSource(a).shape, PadRegion(a))

pad_heads(a) ==
    LET v  == PadSource(a)
        rg == PadRegion(a)
    IN  [shape |-> <<PadSize, PadSize>>,
         data  |-> [i \in 1..PadSize |-> [j \in 1..PadSize |->
                      IF i <= rg[1] /\ j <= rg[2]
                      THEN v.data[IF v.shape[1] = 1 THEN 1 ELSE i]
                                 [IF v.shape[2] = 1 THEN 1 ELSE j]
                      ELSE 0]]]

\* ------------------------------------------------------------------ state
VARIABLES
    pc,               \* the call of the head alignment made last
    one_hot,          \* what binarize returned, once it was called
    ex_heads,         \* the head lists given to binarize_multi_hot (line 214)
    heads,            \* the list object given to apply_heads_to_subtokens
    sub_tokens,       \* the sub-token lists given to apply_heads_to_subtokens
    zero_sub_tokens,  \* the flag of apply_heads_to_subtokens
    binary_heads,     \* the array apply_heads_to_subtokens returned
    padded_heads      \* the array pad_heads returned

alignVars == <<pc, one_hot, ex_heads, heads, sub_tokens, zero_sub_tokens,
               binary_heads, padded_heads>>

VARIABLES
    rpc,          \* the position of read_examples_from_file
    mode,         \* the argument mode
    file,         \* the rows csv.reader yields for the file, header first
    pos,          \* the number of rows taken from the reader
    cur,          \* words, labels, heads, head_words, pos_tags, sub_toks
    examples,     \* the list examples
    guid_index,   \* the counter guid_index
    same_object   \* whether a string "_" read from the file is the very
                  \* object of the literal "_" of lines 108 and 109

readVars == <<rpc, mode, file, pos, cur, examples, guid_index, same_object>>

VARIABLES
    fpc,                   \* the position of convert_examples_to_features
    max_seq_length,        \* the argument max_seq_length
    special_tokens_count,  \* tokenizer.num_special_tokens_to_add()
    word_tokens,           \* tokenizer.tokenize(word) of each word of the example
    loc,                   \* tokens, input_ids, input_mask, segment_ids, label_ids
    n_features,            \* len(features)
    input_features         \* the InputFeatures appended last

featVars == <<fpc, max_seq_length, special_tokens_count, word_tokens, loc,
              n_features, input_features>>

VARIABLES
    tpc,               \* the position of the trainer script train.py
    restore_arg,       \* the string given to --restore_training, if any
    restore_training,  \* args.restore_training
    model_dir_bound,   \* whether the name model_dir of line 148 is bound
    fs,                \* the files the script looks for
    ckpt,              \* the value of line 149
    restored,          \* the calls of model_saver.restore that returned
    initialized,       \* the calls of sess.run(init) that returned
    epoch_no,          \* params_dict['epoch_no']
    epoch              \* the epochs of the loop of line 162 started

trainVars == <<tpc, restore_arg, restore_training, model_dir_bound, fs, ckpt,
               restored, initialized, epoch_no, epoch>>

VARIABLES
    wpc,        \* the position of write_summary_tables
    data,       \* cfg.data
    seeds,      \* cfg.seeds
    header,     \* the list header
    seed_pos,   \* the seeds the loop of line 513 has taken
    csv_rows    \* the rows given to csv_writer.writerow

tableVars == <<wpc, data, seeds, header, seed_pos, csv_rows>>

bookVars == <<trainVars, tableVars>>

vars == <<alignVars, readVars, featVars, bookVars>>

NoArray == NpArray(<<>>)

\* ---------------------------------------- read_examples_from_file (79-116)
\* A cell of the file is the sequence of its characters.
Underscore == <<"_">>

\* line 87 / 96: the six empty lists
NoLists == [words |-> <<>>, labels |-> <<>>, heads |-> <<>>,
            head_words |-> <<>>, pos_tags |-> <<>>, sub_toks |-> <<>>]

\* the reader is not in use
ReadIdle ==
    /\ rpc = "idle" /\ mode = "" /\ file = <<>> /\ pos = 0
    /\ cur = NoLists /\ examples = <<>> /\ guid_index = 1
    /\ same_object = FALSE

\* ------------------------------- convert_examples_to_features (177-297)
\* tokens[:k] and label_ids[:k]; a negative k counts from the end
PySliceTo(s, k) ==
    IF k >= 0 THEN SubSeq(s, 1, Min(k, Len(s))) ELSE SubSeq(s, 1, Max(Len(s) + k, 0))

\* lines 187-192: tokenizer.cls_token, sep_token, their ids, pad_token_id,
\* pad_token_type_id, cls_token_segment_id and CrossEntropyLoss().ignore_index
ClsToken == "[CLS]"
SepToken == "[SEP]"
ClsTokenId == 101
SepTokenId == 102
PadTokenId == 0
PadTokenSegmentId == 0
ClsTokenSegmentId == 0
PadTokenLabelId == 0 - 100

\* line 186: label_map of label_list = ["O", "B"]
LabelMap(label) == IF label = "O" THEN 0 ELSE 1

\* line 203: tokenizer.tokenize(word): the pieces of word i, as many as the
\* tokenizer makes of it
WordPieces(i, count) == [k \in 1..count |-> <<i, k>>]

\* line 266: tokenizer.convert_tokens_to_ids, token by token
TokenId(tok) ==
    CASE tok = ClsToken -> ClsTokenId
      [] tok = SepToken -> SepTokenId
      [] OTHER -> 1000 + 10 * tok[1] + tok[2]

\* lines 200-211: tokens of the words 1..i, given the number of pieces the
\* tokenizer makes of each word
RECURSIVE TokensUpTo(_, _)
TokensUpTo(counts, i) ==
    IF i = 0 THEN <<>>
    ELSE TokensUpTo(counts, i - 1) \o
         (IF counts[i] > 0 THEN WordPieces(i, counts[i]) ELSE <<>>)

\* lines 200-211: label_ids of the words 1..i
RECURSIVE LabelIdsUpTo(_, _, _)
LabelIdsUpTo(labels, counts, i) ==
    IF i = 0 THEN <<>>
    ELSE LabelIdsUpTo(labels, counts, i - 1) \o
         (IF counts[i] > 0
          THEN <<LabelMap(labels[i])>> \o Repeat(PadTokenLabelId, counts[i] - 1)
          ELSE <<>>)

\* variant: the slice keeps one element more
TruncatedLong(s, n_tokens, limit) ==
    IF n_tokens > limit THEN PySliceTo(s, limit + 1) ELSE s

\* lines 236-238: both lists are cut when len(tokens) exceeds the limit
Truncated(s, n_tokens, limit) ==
    IF n_tokens > limit THEN PySliceTo(s, limit) ELSE s

\* line 230: the assertion on the shape of binary_heads
HeadShapeOk(bh, n_tokens) ==
    bh.shape[1] = bh.shape[2] /\ bh.shape[2] = n_tokens + 1

\* lines 234-277: the four lists of an example, from tokens and label_ids
FeatureLists(tokens, label_ids, max_len, special) ==
    LET limit == max_len - special
        toks1 == Truncated(tokens, Len(tokens), limit)
        labs1 == Truncated(label_ids, Len(tokens), limit)
        \* lines 258-264
        toks2 == <<ClsToken>> \o toks1 \o <<SepToken>>
        labs2 == <<PadTokenLabelId>> \o labs1 \o <<PadTokenLabelId>>
        segs2 == <<ClsTokenSegmentId>> \o Repeat(ClsTokenSegmentId, Len(toks1) + 1)
        \* lines 266-270
        ids   == [k \in 1..Len(toks2) |-> TokenId(toks2[k])]
        mask  == Repeat(1, Len(ids))
        \* lines 273-277
        padding_length == max_len - Len(ids)
    IN  [tokens      |-> toks2,
         input_ids   |-> ids \o Repeat(PadTokenId, padding_length),
         input_mask  |-> mask \o Repeat(0, padding_length),
         segment_ids |-> segs2 \o Repeat(PadTokenSegmentId, padding_length),
         label_ids   |-> labs2 \o Repeat(PadTokenLabelId, padding_length)]

\* lines 279-282: the four assertions on the lengths
LengthsOk(l, max_len) ==
    /\ Len(l.input_ids) = max_len
    /\ Len(l.input_mask) = max_len
    /\ Len(l.segment_ids) = max_len
    /\ Len(l.label_ids) = max_len

\* the locals before line 234
NoFeatureLists(tokens, label_ids) ==
    [tokens |-> tokens, input_ids |-> <<>>, input_mask |-> <<>>,
     segment_ids |-> <<>>, label_ids |-> label_ids]

\* lines 293-295: InputFeatures(...)
InputFeatures(l, dep_heads) ==
    [input_ids |-> l.input_ids, attention_mask |-> l.input_mask,
     token_type_ids |-> l.segment_ids, label_ids |-> l.label_ids,
     dep_heads |-> dep_heads]

NoFeatures == InputFeatures(NoFeatureLists(<<>>, <<>>), NoArray)

\* the converter is not in use
FeatIdle ==
    /\ fpc = "idle" /\ max_seq_length = 0 /\ special_tokens_count = 0
    /\ word_tokens = <<>> /\ loc = NoFeatureLists(<<>>, <<>>)
    /\ n_features = 0 /\ input_features = NoFeatures

\* ------------------------------------------------- scripts not in use
\* no argument --restore_training on the command line
NoArg == [given |-> FALSE, text |-> ""]

\* no file of the model directory exists
NoFiles == [dir |-> FALSE, state |-> FALSE, data |-> FALSE, index |-> FALSE]

\* the trainer is not in use
TrainIdle ==
    /\ tpc = "idle" /\ restore_arg = NoArg /\ restore_training = FALSE
    /\ model_dir_bound = FALSE /\ fs = NoFiles /\ ckpt = "None"
    /\ restored = 0 /\ initialized = 0 /\ epoch_no = 0 /\ epoch = 0

\* write_summary_tables is not in use
TableIdle ==
    /\ wpc = "idle" /\ data = <<>> /\ seeds = <<>>
    /\ header = <<>> /\ seed_pos = 0 /\ csv_rows = <<>>

BookIdle == TrainIdle /\ TableIdle

\* ----------------------------------------------------------------- inputs
\* head lists of a sentence of n words: increasing token indices 0..n, and
\* n + 1 as an index outside the sentence
HeadLists(n) ==
    {s \in UNION {[1..k -> 0..(n + 1)] : k \in 0..MaxHeads} :
        \A q \in 1..(Len(s) - 1) : s[q] < s[q + 1]}

\* the sub-token lists of a word: 0..MaxSubToks wordpieces
SubTokLists == {Repeat("##t", k) : k \in 0..MaxSubToks}

\* ---------------------------------------------- the head alignment (Spec)
Init ==
    /\ pc = "start"
    /\ \E n \in 0..MaxWords :
          /\ ex_heads \in {hs \in [1..n -> HeadLists(n)] : TotalLen(hs) <= MaxArcs}
          /\ sub_tokens \in [1..n -> SubTokLists]
    /\ zero_sub_tokens \in BOOLEAN
    /\ one_hot = [done |-> FALSE, value |-> <<>>]
    /\ heads = <<>>
    /\ binary_heads = NoArray
    /\ padded_heads = NoArray
    /\ ReadIdle
    /\ FeatIdle
    /\ BookIdle

\* a sentence in which every token has one head is a sequence of token
\* indices, the argument of binarize
IsTree(hs) == \A k \in 1..Len(hs) : Len(hs[k]) = 1
Preds(hs) == [k \in 1..Len(hs) |-> hs[k][1]]

\* binarize(preds), lines 143-148
Binarize ==
    /\ ~one_hot.done
    /\ IsTree(ex_heads)
    /\ one_hot' = [done |-> TRUE, value |-> binarize(Preds(ex_heads))]
    /\ UNCHANGED <<pc, ex_heads, heads, sub_tokens, zero_sub_tokens,
                   binary_heads, padded_heads>>
    /\ UNCHANGED readVars
    /\ UNCHANGED featVars
    /\ UNCHANGED bookVars

\* variant: the vectors are written into the argument
BinarizeMultiHotInPlace ==
    /\ pc = "start"
    /\ heads' = binarize_multi_hot(ex_heads)
    /\ ex_heads' = heads'
    /\ pc' = "binarized"
    /\ UNCHANGED <<one_hot, sub_tokens, zero_sub_tokens, binary_heads, padded_heads>>
    /\ UNCHANGED readVars
    /\ UNCHANGED featVars
    /\ UNCHANGED bookVars

\* line 214, inner call: binarize_multi_hot(heads)
BinarizeMultiHot ==
    /\ pc = "start"
    /\ heads' = binarize_multi_hot(ex_heads)
    /\ pc' = "binarized"
    /\ UNCHANGED <<one_hot, ex_heads, sub_tokens, zero_sub_tokens,
                   binary_heads, padded_heads>>
    /\ UNCHANGED readVars
    /\ UNCHANGED featVars
    /\ UNCHANGED bookVars

\* line 214, outer call: apply_heads_to_subtokens(heads, sub_toks)
ApplyHeadsToSubtokens ==
    /\ pc = "binarized"
    /\ heads' = HeadsAfterApply(heads, sub_tokens, zero_sub_tokens)
    /\ binary_heads' = apply_heads_to_subtokens(heads, sub_tokens, zero_sub_tokens)
    /\ pc' = "applied"
    /\ UNCHANGED <<one_hot, ex_heads, sub_tokens, zero_sub_tokens, padded_heads>>
    /\ UNCHANGED readVars
    /\ UNCHANGED featVars
    /\ UNCHANGED bookVars

\* line 231: pad_heads(binary_heads)
PadHeads ==
    /\ pc = "applied"
    /\ IF PadRaises(binary_heads)
       THEN pc' = "raised" /\ UNCHANGED padded_heads
       ELSE pc' = "padded" /\ padded_heads' = pad_heads(binary_heads)
    /\ UNCHANGED <<one_hot, ex_heads, heads, sub_tokens, zero_sub_tokens, binary_heads>>
    /\ UNCHANGED readVars
    /\ UNCHANGED featVars
    /\ UNCHANGED bookVars

\* the four functions on the sentences of the bounds, without the padding
Next == Binarize \/ BinarizeMultiHot \/ ApplyHeadsToSubtokens

Spec == Init /\ [][Next]_vars

\* ------------------------- the three calls of lines 214 and 231 (SpecPipe)
\* head lists of a sentence of n words: no head, the root, the last token
PipeHeadLists(n) == {<<>>, <<0>>, <<n>>}

InitPipe ==
    /\ pc = "start"
    /\ \E n \in 0..MaxWords :
          /\ ex_heads \in [1..n -> PipeHeadLists(n)]
          /\ sub_tokens \in [1..n -> SubTokLists]
    /\ zero_sub_tokens \in BOOLEAN
    /\ one_hot = [done |-> FALSE, value |-> <<>>]
    /\ heads = <<>>
    /\ binary_heads = NoArray
    /\ padded_heads = NoArray
    /\ ReadIdle
    /\ FeatIdle
    /\ BookIdle

NextPipe == BinarizeMultiHot \/ ApplyHeadsToSubtokens \/ PadHeads

SpecPipe == InitPipe /\ [][NextPipe]_vars

\* ------------------------------------------- pad_heads alone (SpecPad)
\* the numbers of rows and of columns of the arrays given to pad_heads:
\* small ones, and the ones around 64
PadDims == (0..2) \cup ((PadSize - 1)..MaxDim)

\* the contents: all zero, all one, or a different value at every position
ArrayOf(r, c, fill) ==
    [shape |-> <<r, c>>,
     data  |-> [i \in 1..r |-> [j \in 1..c |->
                  CASE fill = "zeros" -> 0
                    [] fill = "ones"  -> 1
                    [] OTHER          -> (i - 1) * (MaxDim + 1) + j]]]

InitPad ==
    /\ pc = "applied"
    /\ \E r \in PadDims, c \in PadDims, fill \in {"zeros", "ones", "index"} :
          binary_heads = ArrayOf(r, c, fill)
    /\ padded_heads = NoArray
    /\ one_hot = [done |-> FALSE, value |-> <<>>]
    /\ ex_heads = <<>>
    /\ heads = <<>>
    /\ sub_tokens = <<>>
    /\ zero_sub_tokens = FALSE
    /\ ReadIdle
    /\ FeatIdle
    /\ BookIdle

NextPad == PadHeads

SpecPad == InitPad /\ [][NextPad]_vars

\* ------------------------------------ reading the examples (SpecRead)
\* the alignment functions are not in use
AlignIdle ==
    /\ pc = "idle"
    /\ one_hot = [done |-> FALSE, value |-> <<>>]
    /\ ex_heads = <<>> /\ heads = <<>> /\ sub_tokens = <<>>
    /\ zero_sub_tokens = FALSE
    /\ binary_heads = NoArray /\ padded_heads = NoArray

Digits == {"0", "1", "2", "3", "4", "5", "6", "7", "8", "9"}

DigitValue(ch) ==
    CASE ch = "0" -> 0 [] ch = "1" -> 1 [] ch = "2" -> 2 [] ch = "3" -> 3
      [] ch = "4" -> 4 [] ch = "5" -> 5 [] ch = "6" -> 6 [] ch = "7" -> 7
      [] ch = "8" -> 8 [] ch = "9" -> 9

DigitChar(d) ==
    CASE d = 0 -> "0" [] d = 1 -> "1" [] d = 2 -> "2" [] d = 3 -> "3"
      [] d = 4 -> "4" [] d = 5 -> "5" [] d = 6 -> "6" [] d = 7 -> "7"
      [] d = 8 -> "8" [] d = 9 -> "9"

\* f"{guid_index}": the decimal digits of a positive integer
RECURSIVE Str(_)
Str(k) == IF k < 10 THEN DigitChar(k) ELSE Str(k \div 10) \o DigitChar(k % 10)

\* line 93 / 113: f"{mode}-{guid_index}"
Guid(m, k) == m \o "-" \o Str(k)

\* s.split(sep) for a one-character separator
RECURSIVE SplitFrom(_, _, _, _)
SplitFrom(s, sep, k, piece) ==
    IF k > Len(s) THEN <<piece>>
    ELSE IF s[k] = sep THEN <<piece>> \o SplitFrom(s, sep, k + 1, <<>>)
    ELSE SplitFrom(s, sep, k + 1, Append(piece, s[k]))

Split(s, sep) == SplitFrom(s, sep, 1, <<>>)

\* s.split(): the pieces between runs of blanks, none of them empty
SplitBlanks(s) == SelectSeq(Split(s, " "), LAMBDA piece : piece # <<>>)

\* whether int(s) accepts s: digits, with single underscores between them
\* (the cells of the model hold no sign and no blank)
IsIntLiteral(s) ==
    /\ Len(s) > 0
    /\ s[1] \in Digits /\ s[Len(s)] \in Digits
    /\ \A k \in 1..Len(s) : s[k] \in Digits \cup {"_"}
    /\ \A k \in 1..(Len(s) - 1) : ~(s[k] = "_" /\ s[k + 1] = "_")

\* int(s) of an accepted s
RECURSIVE IntFrom(_, _, _)
IntFrom(s, k, acc) ==
    IF k > Len(s) THEN acc
    ELSE IF s[k] = "_" THEN IntFrom(s, k + 1, acc)
    ELSE IntFrom(s, k + 1, acc * 10 + DigitValue(s[k]))

IntOf(s) == IntFrom(s, 1, 0)

\* `cell is not "_"` (lines 108, 109): two strings that differ are two
\* objects; whether two equal strings are one object is left to the
\* interpreter
IsNotLiteral(cell, literal, same) == cell # literal \/ ~same

\* line 108: whether the list comprehension raises ValueError
HeadRaises(head, same) ==
    /\ IsNotLiteral(head, Underscore, same)
    /\ \E q \in 1..Len(Split(head, "~")) : ~IsIntLiteral(Split(head, "~")[q])

\* line 108: [int(h) for h in head.split('~')] if head is not "_" else []
HeadsOfCell(head, same) ==
    IF IsNotLiteral(head, Underscore, same)
    THEN [q \in 1..Len(Split(head, "~")) |-> IntOf(Split(head, "~")[q])]
    ELSE <<>>

\* line 109: head_word.split('~') if head_word is not "_" else []
HeadWordsOfCell(head_word, same) ==
    IF IsNotLiteral(head_word, Underscore, same) THEN Split(head_word, "~") ELSE <<>>

\* line 111: sub_tok.split() if sub_tok else [word]
SubToksOfCell(sub_tok, word) ==
    IF sub_tok # <<>> THEN SplitBlanks(sub_tok) ELSE <<word>>

\* line 85: empty_row
empty_row == [c \in 1..7 |-> Underscore]

\* lines 93-94 / 113-115: the example made of the six lists
InputExample(m, k, lists) ==
    [guid |-> Guid(m, k), words |-> lists.words, labels |-> lists.labels,
     heads |-> lists.heads, head_words |-> lists.head_words,
     pos_tags |-> lists.pos_tags, sub_toks |-> lists.sub_toks]

\* lines 106-107: the appends made before line 108 raises ValueError
AppendBeforeHeads(lists, row) ==
    [lists EXCEPT !.words = Append(@, row[1]), !.labels = Append(@, row[2])]

\* lines 98-111: the row is added to the six lists
AppendRow(lists, row, same) ==
    [words      |-> Append(lists.words, row[1]),
     labels     |-> Append(lists.labels, row[2]),
     heads      |-> Append(lists.heads, HeadsOfCell(row[3], same)),
     head_words |-> Append(lists.head_words, HeadWordsOfCell(row[4], same)),
     pos_tags   |-> Append(lists.pos_tags, row[6]),
     sub_toks   |-> Append(lists.sub_toks, SubToksOfCell(row[7], row[1]))]

\* the rows of the files: word, label, head, head_word, syn_rel, pos_tag,
\* sub_tok
HeaderRow == << <<"w">>, <<"l">>, <<"h">>, <<"h", "w">>, <<"r">>, <<"p">>, <<"s">> >>

DataRows ==
    { \* a token without heads
      << <<"a">>, <<"O">>, <<"_">>, <<"_">>, <<"_">>, <<"N">>, <<"a">> >>,
      \* a token with one head, split in two sub-tokens
      << <<"b">>, <<"B">>, <<"0">>, <<"r">>, <<"x">>, <<"V">>, <<"b", " ", "#">> >>,
      \* a token with two heads and an empty sub_tok cell
      << <<"c">>, <<"O">>, <<"1", "~", "1", "2">>, <<"a", "~", "b">>,
         <<"x", "~", "y">>, <<"N">>, <<>> >>,
      \* the word "_" with one head whose word is "_"
      << <<"_">>, <<"O">>, <<"2">>, <<"_">>, <<"x">>, <<"N">>, <<"_">> >> }

Rows == DataRows \cup {empty_row}

InitRead ==
    /\ rpc = "open"
    /\ mode \in {"train", "dev"}
    /\ file \in {<<>>} \cup
          {<<HeaderRow>> \o body : body \in UNION {[1..k -> Rows] : k \in 0..MaxRows}}
    /\ same_object \in BOOLEAN
    /\ pos = 0
    /\ cur = NoLists
    /\ examples = <<>>
    /\ guid_index = 1
    /\ AlignIdle
    /\ FeatIdle
    /\ BookIdle

\* line 89: next(reader, None)
SkipHeader ==
    /\ rpc = "open"
    /\ pos' = Min(1, Len(file))
    /\ rpc' = "rows"
    /\ UNCHANGED <<mode, file, cur, examples, guid_index, same_object>>
    /\ UNCHANGED alignVars
    /\ UNCHANGED featVars
    /\ UNCHANGED bookVars

\* lines 90-111: one iteration of the loop over the rows
ReadRow ==
    /\ rpc = "rows"
    /\ pos < Len(file)
    /\ pos' = pos + 1
    /\ LET row == file[pos + 1]
       IN  IF row = empty_row
           THEN /\ IF cur.words # <<>>
                   THEN /\ examples' = Append(examples, InputExample(mode, guid_index, cur))
                        /\ guid_index' = guid_index + 1
                        /\ cur' = NoLists
                   ELSE UNCHANGED <<examples, guid_index, cur>>
                /\ rpc' = "rows"
           ELSE IF HeadRaises(row[3], same_object)
           THEN /\ cur' = AppendBeforeHeads(cur, row)
                /\ rpc' = "raised"
                /\ UNCHANGED <<examples, guid_index>>
           ELSE /\ cur' = AppendRow(cur, row, same_object)
                /\ rpc' = "rows"
                /\ UNCHANGED <<examples, guid_index>>
    /\ UNCHANGED <<mode, file, same_object>>
    /\ UNCHANGED alignVars
    /\ UNCHANGED featVars
    /\ UNCHANGED bookVars

\* lines 112-116: the reader is exhausted
ReturnExamples ==
    /\ rpc = "rows"
    /\ pos = Len(file)
    /\ IF cur.words # <<>>
       THEN examples' = Append(examples, InputExample(mode, guid_index, cur))
       ELSE UNCHANGED examples
    /\ rpc' = "done"
    /\ UNCHANGED <<mode, file, pos, cur, guid_index, same_object>>
    /\ UNCHANGED alignVars
    /\ UNCHANGED featVars
    /\ UNCHANGED bookVars

NextRead == SkipHeader \/ ReadRow \/ ReturnExamples

SpecRead == InitRead /\ [][NextRead]_vars

\* ----------------------------------------- the examples given (SpecFeat)
\* the heads of a sentence of n words: no token has a head; every token
\* hangs on the token before it, the first on the root; every token hangs
\* on the last one
SentenceHeads(n) ==
    {[i \in 1..n |-> <<>>], [i \in 1..n |-> <<i - 1>>], [i \in 1..n |-> <<n>>]}

\* the labels of a sentence of n words
SentenceLabels(n) == [i \in 1..n |-> IF i = 1 THEN "B" ELSE "O"]

\* the number of pieces tokenizer.tokenize makes of a word whose sub_toks
\* cell held s sub-tokens: as many, and one for none ("agree"); as many,
\* and none for none ("same"); one more ("more")
Tokenizers == {"agree", "same", "more"}

PieceCount(tokenizer, s) ==
    CASE tokenizer = "agree" -> Max(1, s)
      [] tokenizer = "same"  -> s
      [] tokenizer = "more"  -> s + 1

InitFeat ==
    /\ fpc = "loop"
    /\ max_seq_length \in 1..MaxSeqLen
    /\ special_tokens_count \in 1..2
    /\ word_tokens = <<>>
    /\ loc = NoFeatureLists(<<>>, <<>>)
    /\ n_features = 0
    /\ input_features = NoFeatures
    /\ AlignIdle
    /\ ReadIdle
    /\ BookIdle

\* lines 195-211: the next example is taken and its words are tokenized;
\* the locals the body sets later hold nothing yet
TokenizeExample ==
    /\ fpc = "loop"
    /\ n_features < MaxExamples
    /\ \E n \in 0..MaxWords, tokenizer \in Tokenizers :
       \E hs \in SentenceHeads(n), st \in [1..n -> SubTokLists] :
          LET counts == [i \in 1..n |-> PieceCount(tokenizer, Len(st[i]))]
          IN  /\ ex_heads' = hs
              /\ sub_tokens' = st
              /\ word_tokens' = [i \in 1..n |-> WordPieces(i, counts[i])]
              /\ loc' = NoFeatureLists(TokensUpTo(counts, n),
                                       LabelIdsUpTo(SentenceLabels(n), counts, n))
    /\ heads' = <<>>
    /\ binary_heads' = NoArray
    /\ padded_heads' = NoArray
    /\ input_features' = NoFeatures
    /\ fpc' = "tokenized"
    /\ UNCHANGED <<pc, one_hot, zero_sub_tokens, max_seq_length,
                   special_tokens_count, n_features>>
    /\ UNCHANGED readVars
    /\ UNCHANGED bookVars

\* lines 213-296: the heads are aligned and padded, the lists are built and
\* checked, and the features are appended
BuildFeatures ==
    /\ fpc = "tokenized"
    /\ LET multi_hot == binarize_multi_hot(ex_heads)
           bh        == apply_heads_to_subtokens(multi_hot, sub_tokens, FALSE)
           lists     == FeatureLists(loc.tokens, loc.label_ids, max_seq_length,
                                     special_tokens_count)
       IN  /\ heads' = HeadsAfterApply(multi_hot, sub_tokens, FALSE)
           /\ binary_heads' = bh
           /\ IF ~HeadShapeOk(bh, Len(loc.tokens)) \/ PadRaises(bh)
              THEN /\ fpc' = "raised_heads"
                   /\ UNCHANGED <<padded_heads, loc, n_features, input_features>>
              ELSE /\ padded_heads' = pad_heads(bh)
                   /\ loc' = lists
                   /\ IF LengthsOk(lists, max_seq_length)
                      THEN /\ fpc' = "loop"
                           /\ n_features' = n_features + 1
                           /\ input_features' = InputFeatures(lists, padded_heads')
                      ELSE /\ fpc' = "raised_lengths"
                           /\ UNCHANGED <<n_features, input_features>>
    /\ UNCHANGED <<pc, one_hot, ex_heads, sub_tokens, zero_sub_tokens,
                   max_seq_length, special_tokens_count, word_tokens>>
    /\ UNCHANGED readVars
    /\ UNCHANGED bookVars

\* line 297: return features
ReturnFeatures ==
    /\ fpc = "loop"
    /\ fpc' = "done"
    /\ UNCHANGED <<max_seq_length, special_tokens_count, word_tokens, loc,
                   n_features, input_features>>
    /\ UNCHANGED alignVars
    /\ UNCHANGED readVars
    /\ UNCHANGED bookVars

NextFeat == TokenizeExample \/ BuildFeatures \/ ReturnFeatures

SpecFeat == InitFeat /\ [][NextFeat]_vars

\* ------------------------------------ the trainer train.py (SpecTrain)
\* bool(s) of a string: every string but the empty one is true
PyBool(text) == text # ""

\* lines 67-68, 77: argparse gives type=bool the string of the command
\* line; the default False is taken as it is
ParseRestoreTraining(arg) == IF arg.given THEN PyBool(arg.text) ELSE FALSE

\* line 149: tf.train.get_checkpoint_state(train_dir)
get_checkpoint_state(files) == IF files.state THEN "CheckpointState" ELSE "None"

\* lines 150, 152: tf.gfile.Exists(v2_path), asked only when ckpt is not None
V2PathExists(files) == files.index

\* variant: the test does not ask for args.restore_training
RestoreConditionNoFlag(c, flag, files) ==
    /\ c # "None"
    /\ (files.data \/ V2PathExists(files))

\* lines 151-152: the condition of the if statement
RestoreCondition(c, flag, files) ==
    /\ c # "None"
    /\ flag
    /\ (files.data \/ V2PathExists(files))

\* line 170: model_saver.save writes the checkpoint state and the index
SaveFiles(files) == [files EXCEPT !.state = TRUE, !.index = TRUE]

RestoreArgs ==
    {NoArg} \cup {[given |-> TRUE, text |-> t] : t \in {"", "True", "False"}}

InitTrain ==
    /\ tpc = "parse"
    /\ restore_arg \in RestoreArgs
    /\ restore_training = FALSE
    /\ model_dir_bound \in BOOLEAN
    /\ fs \in [dir : BOOLEAN, state : BOOLEAN, data : BOOLEAN, index : BOOLEAN]
    /\ ckpt = "None"
    /\ restored = 0 /\ initialized = 0
    /\ epoch_no \in 0..MaxEpochs
    /\ epoch = 0
    /\ AlignIdle /\ ReadIdle /\ FeatIdle /\ TableIdle

\* lines 77, 93
ParseArgs ==
    /\ tpc = "parse"
    /\ restore_training' = ParseRestoreTraining(restore_arg)
    /\ tpc' = "session"
    /\ UNCHANGED <<restore_arg, model_dir_bound, fs, ckpt, restored, initialized,
                   epoch_no, epoch>>
    /\ UNCHANGED <<alignVars, readVars, featVars, tableVars>>

\* lines 141-146: the session is opened and 'trained_model' is made
OpenSession ==
    /\ tpc = "session"
    /\ fs' = [fs EXCEPT !.dir = TRUE]
    /\ tpc' = "join"
    /\ UNCHANGED <<restore_arg, restore_training, model_dir_bound, ckpt, restored,
                   initialized, epoch_no, epoch>>
    /\ UNCHANGED <<alignVars, readVars, featVars, tableVars>>

\* line 148: the script assigns no name model_dir; the name is bound only
\* when `from utils import *` (line 24) brings it, else NameError is raised
JoinModelDir ==
    /\ tpc = "join"
    /\ tpc' = IF model_dir_bound THEN "state" ELSE "raised"
    /\ UNCHANGED <<restore_arg, restore_training, model_dir_bound, fs, ckpt,
                   restored, initialized, epoch_no, epoch>>
    /\ UNCHANGED <<alignVars, readVars, featVars, tableVars>>

\* lines 149-150
GetCheckpointState ==
    /\ tpc = "state"
    /\ ckpt' = get_checkpoint_state(fs)
    /\ tpc' = "choose"
    /\ UNCHANGED <<restore_arg, restore_training, model_dir_bound, fs, restored,
                   initialized, epoch_no, epoch>>
    /\ UNCHANGED <<alignVars, readVars, featVars, tableVars>>

\* lines 151-156: model_saver.restore, which returns or raises, or
\* sess.run(init)
RestoreOrInit ==
    /\ tpc = "choose"
    /\ IF RestoreCondition(ckpt, restore_training, fs)
       THEN /\ restored' = restored + 1
            /\ tpc' \in {"begin", "raised"}
            /\ UNCHANGED initialized
       ELSE /\ initialized' = initialized + 1
            /\ tpc' = "begin"
            /\ UNCHANGED restored
    /\ UNCHANGED <<restore_arg, restore_training, model_dir_bound, fs, ckpt,
                   epoch_no, epoch>>
    /\ UNCHANGED <<alignVars, readVars, featVars, tableVars>>

\* lines 162-172: one epoch, with the save of line 170
TrainEpoch ==
    /\ tpc = "begin"
    /\ epoch < epoch_no
    /\ epoch' = epoch + 1
    /\ fs' = SaveFiles(fs)
    /\ UNCHANGED <<tpc, restore_arg, restore_training, model_dir_bound, ckpt,
                   restored, initialized, epoch_no>>
    /\ UNCHANGED <<alignVars, readVars, featVars, tableVars>>

\* line 162: the range is used up
EndTraining ==
    /\ tpc = "begin"
    /\ epoch = epoch_no
    /\ tpc' = "done"
    /\ UNCHANGED <<restore_arg, restore_training, model_dir_bound, fs, ckpt,
                   restored, initialized, epoch_no, epoch>>
    /\ UNCHANGED <<alignVars, readVars, featVars, tableVars>>

NextTrain ==
    \/ ParseArgs \/ OpenSession \/ JoinModelDir \/ GetCheckpointState
    \/ RestoreOrInit \/ TrainEpoch \/ EndTraining

SpecTrain == InitTrain /\ [][NextTrain]_vars

\* ------------------------------- write_summary_tables (SpecTables)
\* A cell is a string, the sequence of its pieces, or a float.
Str0 == <<>>

\* a float read from a score file or computed from such floats; the model
\* does not hold its value
Float == <<"<float>">>

\* s.upper() of a one-letter string of the names of the model
Upper(ch) ==
    CASE ch = "l" -> "L" [] ch = "r" -> "R" [] ch = "d" -> "D"
      [] ch = "t" -> "T" [] ch = "o" -> "O" [] OTHER -> ch

\* lines 416-417: the members of cfg.data for which cfg.is_cross_domain
\* answers c
DatasetsOf(ds, c) == SelectSeq(ds, LAMBDA dataset : dataset.cross = c)

\* lines 422-423: ds_split[0][0] or ds_split[2][0] raises IndexError
CrossStrRaises(dataset) ==
    LET ds_split == Split(dataset.name, "_")
    IN  Len(ds_split) < 3 \/ ds_split[1] = <<>> \/ ds_split[3] = <<>>

\* lines 422-423: f"{ds_split[0][0]}-->{ds_split[2][0]}".upper()
CrossStr(dataset) ==
    LET ds_split == Split(dataset.name, "_")
    IN  <<Upper(ds_split[1][1]), "-->", Upper(ds_split[3][1])>>

\* line 430: dataset[0] raises IndexError
InDomainStrRaises(dataset) == dataset.name = <<>>

\* line 430: f"{dataset[0]}-->{dataset[0]}".upper()
InDomainStr(dataset) ==
    <<Upper(dataset.name[1]), "-->", Upper(dataset.name[1])>>

\* lines 421-424 / 429-431: header.extend([ds_str, f'{ds_str} ']) for each
\* dataset from the k-th on
RECURSIVE ExtendWithDatasets(_, _, _, _)
ExtendWithDatasets(hd, datasets, k, cross) ==
    IF k > Len(datasets) THEN hd
    ELSE LET ds_str == IF cross THEN CrossStr(datasets[k])
                       ELSE InDomainStr(datasets[k])
         IN  ExtendWithDatasets(hd \o <<ds_str, ds_str \o <<" ">> >>,
                                datasets, k + 1, cross)

\* ['AS', 'OP'] * k
RECURSIVE AsOp(_)
AsOp(k) == IF k <= 0 THEN <<>> ELSE << <<"AS">>, <<"OP">> >> \o AsOp(k - 1)

\* lines 413-433: the list header
HeaderOf(cross_datasets, indomain_datasets) ==
    LET h0 == << Str0 >>
        h1 == IF cross_datasets # <<>>
              THEN ExtendWithDatasets(h0, cross_datasets, 1, TRUE)
                   \o << <<"Cross-Domain">>, <<"Cross-Domain">> >>
              ELSE h0
    IN  IF indomain_datasets # <<>>
        THEN ExtendWithDatasets(h1 \o << <<"|">> >>, indomain_datasets, 1, FALSE)
             \o << <<"In-Domain">>, <<"In-Domain">> >>
        ELSE h1

\* lines 414, 426, 433 (sub_header) and 517-519 (seed_header)
ColumnTitles(first, cross_datasets, indomain_datasets) ==
    LET s1 == IF cross_datasets # <<>>
              THEN <<first>> \o AsOp(Len(cross_datasets))
                   \o << <<"ASP_MEAN">>, <<"OP_MEAN">> >>
              ELSE <<first>>
    IN  IF indomain_datasets # <<>>
        THEN s1 \o << <<"|">> >> \o AsOp(Len(indomain_datasets))
             \o << <<"ASP_MEAN">>, <<"OP_MEAN">> >>
        ELSE s1

\* lines 441-454 / 488-505: two floats a dataset are added to each of the
\* four lists
RECURSIVE ScoresOf(_)
ScoresOf(datasets) ==
    IF datasets = <<>> THEN <<>> ELSE <<Float, Float>> \o ScoresOf(Tail(datasets))

\* lines 456-459 / 507-510: row.extend([asp_mean, op_mean])
WithMeans(row) == row \o <<Float, Float>>

\* lines 439-460 and 486-511: the four rows of a group of datasets
RowsOnDatasets(datasets) ==
    [baseline_row     |-> WithMeans(ScoresOf(datasets)),
     baseline_std_row |-> ScoresOf(datasets),
     model_row        |-> WithMeans(ScoresOf(datasets)),
     model_std_row    |-> ScoresOf(datasets)]

\* lines 469-470 / 528-529: np.array(a) - np.array(b)
Subtract(a, b) == [q \in 1..Max(Len(a), Len(b)) |-> Float]

\* row[:-2]
AllButLastTwo(row) == SubSeq(row, 1, Len(row) - 2)

\* variant: row[-1:]
LastOne(row) == SubSeq(row, Max(Len(row), 1), Len(row))

\* row[-2:]
LastTwo(row) == SubSeq(row, Max(Len(row) - 1, 1), Len(row))

\* line 471: f'{m:.2f} ({s:.2f})' for m, s in zip(means, stds)
format_list(means, stds) ==
    [q \in 1..Min(Len(means), Len(stds)) |-> <<"<.2f>", " (", "<.2f>", ")">>]

\* lines 475, 479 / 533, 537: [f'{d:.2f}' for d in deltas]
FormatDeltas(deltas) == [q \in 1..Len(deltas) |-> <<"<.2f>">>]

\* lines 473-474, 477-478 / 531-532, 535-536: the baseline or the model row
ScoreRow(first, cross, indomain, cd_row, cd_std_row, id_row, id_std_row) ==
    LET r1 == <<first>> \o
              (IF cross # <<>>
               THEN format_list(AllButLastTwo(cd_row), cd_std_row) \o LastTwo(cd_row)
               ELSE <<>>)
    IN  IF indomain # <<>>
        THEN r1 \o << <<"|">> >>
             \o format_list(AllButLastTwo(id_row), id_std_row) \o LastTwo(id_row)
        ELSE r1

\* lines 475, 479 / 533, 537: the delta row
DeltasRow(cross_datasets, indomain_datasets, cd_deltas_row, id_deltas_row) ==
    LET r1 == << <<"delta">> >> \o
              (IF cross_datasets # <<>> THEN FormatDeltas(cd_deltas_row) ELSE <<>>)
    IN  IF indomain_datasets # <<>>
        THEN r1 \o << <<"|">> >> \o FormatDeltas(id_deltas_row)
        ELSE r1

\* lines 463-482 / 523-540: the baseline, model and delta rows
ThreeRows(cross_datasets, indomain_datasets) ==
    LET cd == RowsOnDatasets(cross_datasets)
        id == RowsOnDatasets(indomain_datasets)
    IN  << ScoreRow(<<"baseline">>, cross_datasets, indomain_datasets,
                    cd.baseline_row, cd.baseline_std_row,
                    id.baseline_row, id.baseline_std_row),
           ScoreRow(<<"model">>, cross_datasets, indomain_datasets,
                    cd.model_row, cd.model_std_row,
                    id.model_row, id.model_std_row),
           DeltasRow(cross_datasets, indomain_datasets,
                     Subtract(cd.model_row, cd.baseline_row),
                     Subtract(id.model_row, id.baseline_row)) >>

\* line 517: f'Seed {seed}'
SeedTitle(seed) == <<"Seed ", Str(seed)>>

\* the datasets of the model: two cross-domain and two in-domain ones, and
\* a name without "_" for which cfg.is_cross_domain answers True
DatasetNames ==
    { [name |-> <<"l", "_", "t", "o", "_", "r">>, cross |-> TRUE],
      [name |-> <<"r", "_", "t", "o", "_", "d">>, cross |-> TRUE],
      [name |-> <<"l">>, cross |-> FALSE],
      [name |-> <<"r">>, cross |-> FALSE],
      [name |-> <<"d">>, cross |-> TRUE] }

InitTables ==
    /\ wpc = "open"
    /\ data \in UNION {[1..k -> DatasetNames] : k \in 0..MaxDatasets}
    /\ seeds \in {[q \in 1..k |-> q] : k \in 0..MaxSeeds}
    /\ header = <<>>
    /\ seed_pos = 0
    /\ csv_rows = <<>>
    /\ AlignIdle /\ ReadIdle /\ FeatIdle /\ TrainIdle

\* lines 410-436: the header and the sub-header
WriteHeaders ==
    /\ wpc = "open"
    /\ LET cross_datasets    == DatasetsOf(data, TRUE)
           indomain_datasets == DatasetsOf(data, FALSE)
       IN  IF \/ \E q \in 1..Len(cross_datasets) : CrossStrRaises(cross_datasets[q])
              \/ \E q \in 1..Len(indomain_datasets) :
                    InDomainStrRaises(indomain_datasets[q])
           THEN wpc' = "raised" /\ UNCHANGED <<header, csv_rows>>
           ELSE /\ header' = HeaderOf(cross_datasets, indomain_datasets)
                /\ csv_rows' = <<header',
                                 ColumnTitles(<<"Seeds Average">>, cross_datasets,
                                              indomain_datasets)>>
                /\ wpc' = "average"
    /\ UNCHANGED <<data, seeds, seed_pos>>
    /\ UNCHANGED <<alignVars, readVars, featVars, trainVars>>

\* lines 438-482: the rows of the seeds average; get_score_from_csv_agg
\* raises when a score file is not there
WriteAverageRows ==
    /\ wpc = "average"
    /\ \E found \in BOOLEAN :
          IF found \/ data = <<>>
          THEN /\ csv_rows' = csv_rows \o
                      ThreeRows(DatasetsOf(data, TRUE), DatasetsOf(data, FALSE))
               /\ wpc' = "seeds"
          ELSE wpc' = "raised" /\ UNCHANGED csv_rows
    /\ UNCHANGED <<data, seeds, header, seed_pos>>
    /\ UNCHANGED <<alignVars, readVars, featVars, trainVars>>

\* lines 513-540: the five rows of the next seed; get_score_from_csv raises
\* when a metrics file is not there
WriteSeedRows ==
    /\ wpc = "seeds"
    /\ seed_pos < Len(seeds)
    /\ LET cross_datasets    == DatasetsOf(data, TRUE)
           indomain_datasets == DatasetsOf(data, FALSE)
           seed_header == ColumnTitles(SeedTitle(seeds[seed_pos + 1]),
                                       cross_datasets, indomain_datasets)
           two == csv_rows \o <<Repeat(Str0, Len(header)), seed_header>>
       IN  \E found \in BOOLEAN :
              IF found \/ data = <<>>
              THEN /\ csv_rows' = two \o ThreeRows(cross_datasets, indomain_datasets)
                   /\ seed_pos' = seed_pos + 1
                   /\ UNCHANGED wpc
              ELSE /\ csv_rows' = two
                   /\ wpc' = "raised"
                   /\ UNCHANGED seed_pos
    /\ UNCHANGED <<data, seeds, header>>
    /\ UNCHANGED <<alignVars, readVars, featVars, trainVars>>

\* line 513: cfg.seeds is used up and the file is closed
ReturnTables ==
    /\ wpc = "seeds"
    /\ seed_pos = Len(seeds)
    /\ wpc' = "done"
    /\ UNCHANGED <<data, seeds, header, seed_pos, csv_rows>>
    /\ UNCHANGED <<alignVars, readVars, featVars, trainVars>>

NextTables == WriteHeaders \/ WriteAverageRows \/ WriteSeedRows \/ ReturnTables

SpecTables == InitTables /\ [][NextTables]_vars

\* ============================================================== properties
\* the members of a Python list
Elems(l) == {l[q] : q \in 1..Len(l)}

\* the number of words of the sentence
NWords == Len(ex_heads)

\* s_i: the number of sub-tokens of word i (0-based)
SubCount(i) == Len(sub_tokens[i + 1])

\* start(j) = 1 + sum of s_k for k < j
RECURSIVE StartOf(_)
StartOf(j) == IF j = 0 THEN 1 ELSE StartOf(j - 1) + SubCount(j - 1)

\* the word-level matrix given to apply_heads_to_subtokens
WordMatrix == binarize_multi_hot(ex_heads)

Applied == pc \in {"applied", "padded"}

\* C2: with zero_sub_tokens = False and every word having at least one
\* sub-token, row 0 of the output is all zeros, and every sub-token row of
\* word w carries M[w][0] in column 0, M[w][j+1] in the column of the first
\* sub-token of word j, and 0 in the column of every further sub-token.
C2_SubtokenLayout ==
    (Applied /\ ~zero_sub_tokens /\ \A i \in 0..(NWords - 1) : SubCount(i) >= 1)
    => LET O == binary_heads.data
           M == WordMatrix
           side == StartOf(NWords)
       IN  /\ Len(O) = side
           /\ \A r \in 0..(side - 1) : Len(O[r + 1]) = side
           /\ \A c \in 0..(side - 1) : At(O, 0, c) = 0
           /\ \A w \in 0..(NWords - 1) :
                \A r \in StartOf(w)..(StartOf(w) + SubCount(w) - 1) :
                   /\ At(O, r, 0) = At(M, w, 0)
                   /\ \A j \in 0..(NWords - 1) :
                        /\ At(O, r, StartOf(j)) = At(M, w, j + 1)
                        /\ \A c \in (StartOf(j) + 1)..(StartOf(j) + SubCount(j) - 1) :
                              At(O, r, c) = 0

\* C2 witness: a two-word sentence, one word split in two sub-tokens, the
\* other word having an arc to it
C2_Witness ==
    /\ Applied /\ ~zero_sub_tokens /\ NWords = 2
    /\ SubCount(0) = 2 /\ SubCount(1) = 1
    /\ ex_heads = << <<2>>, <<0, 1>> >>
    /\ binary_heads.data[3] = <<0, 0, 0, 1>>
    /\ binary_heads.data[4] = <<1, 1, 0, 0>>

\* C3: pad_heads never raises and returns a 64 x 64 array whose entry (i, j)
\* is a[i][j] for i < min(r, 64) and j < min(c, 64), and 0 elsewhere.
C3_PadIs64x64 ==
    /\ pc # "raised"
    /\ pc = "padded" =>
         LET a == binary_heads
             r == a.shape[1]
             c == a.shape[2]
         IN  /\ padded_heads.shape = <<64, 64>>
             /\ Len(padded_heads.data) = 64
             /\ \A i \in 0..63 :
                  /\ Len(padded_heads.data[i + 1]) = 64
                  /\ \A j \in 0..63 :
                       At(padded_heads.data, i, j) =
                          (IF i < Min(r, 64) /\ j < Min(c, 64) THEN At(a.data, i, j) ELSE 0)

\* C3 witness: an array of more than 64 rows and columns was padded
C3_Witness ==
    /\ pc = "padded"
    /\ binary_heads.shape = <<65, 66>>
    /\ At(binary_heads.data, 63, 63) # 0
    /\ At(padded_heads.data, 63, 63) = At(binary_heads.data, 63, 63)

\* C4 as stated: no call of the three functions changes an argument
C4_NoArgumentChanged ==
    [][ /\ (BinarizeMultiHot => ex_heads' = ex_heads)
        /\ (ApplyHeadsToSubtokens => (heads' = heads /\ sub_tokens' = sub_tokens))
        /\ (PadHeads => binary_heads' = binary_heads) ]_vars

\* C4 (amended): binarize_multi_hot and pad_heads leave their argument as it
\* was, and apply_heads_to_subtokens leaves sub_tokens as it was, but it
\* changes the list heads in place: after the call that list holds the
\* expanded matrix that is returned.
C4_OnlyHeadsChangedInPlace ==
    [][ /\ (BinarizeMultiHot => ex_heads' = ex_heads)
        /\ (ApplyHeadsToSubtokens =>
               /\ sub_tokens' = sub_tokens
               /\ heads' # heads
               /\ heads' = binary_heads'.data)
        /\ (PadHeads => binary_heads' = binary_heads) ]_vars

\* C4 witness: the three calls were made and the list given to
\* apply_heads_to_subtokens is no longer the matrix it was given
C4_Witness ==
    /\ pc = "padded" /\ NWords = 2
    /\ heads # WordMatrix
    /\ heads = binary_heads.data
    /\ Len(heads) > Len(WordMatrix)

\* C5: binarize_multi_hot gives n rows of length n + 1, and the row of a
\* token with a non-empty head list has 1 exactly at the columns that are
\* members of the list.
C5_MultiHotRows ==
    pc = "binarized"
    => /\ Len(heads) = NWords
       /\ \A k \in 1..NWords :
            /\ Len(heads[k]) = NWords + 1
            /\ ex_heads[k] # <<>> =>
                 \A i \in 0..NWords :
                    heads[k][i + 1] = (IF i \in Elems(ex_heads[k]) THEN 1 ELSE 0)

\* C5 witness: a token with two heads
C5_Witness ==
    /\ pc = "binarized" /\ NWords = 2
    /\ ex_heads[2] = <<0, 1>>
    /\ heads[2] = <<1, 1, 0>>

\* C6: the row of a token with an empty head list is all ones, of length
\* len(heads) + 1, hence never all zeros.
C6_NoHeadsAllOnes ==
    pc = "binarized"
    => \A k \in 1..NWords :
          ex_heads[k] = <<>> =>
             /\ Len(heads[k]) = NWords + 1
             /\ \A c \in 1..(NWords + 1) : heads[k][c] = 1

\* C6 witness: a sentence with a token without heads and a token with one
C6_Witness ==
    /\ pc = "binarized" /\ NWords = 2
    /\ ex_heads[1] = <<>> /\ ex_heads[2] # <<>>
    /\ heads[1] = <<1, 1, 1>>

\* C7: on [[p] for p in preds] binarize_multi_hot returns what binarize
\* returns on preds: row k has length len(preds) + 1 and has 1 exactly at
\* column preds[k].
C7_MultiHotIsBinarize ==
    (pc = "binarized" /\ one_hot.done)
    => /\ heads = one_hot.value
       /\ Len(one_hot.value) = NWords
       /\ \A k \in 1..NWords :
            /\ Len(one_hot.value[k]) = NWords + 1
            /\ \A i \in 0..NWords :
                 one_hot.value[k][i + 1] = (IF i = ex_heads[k][1] THEN 1 ELSE 0)

\* C7 witness: both functions were called on a two-token tree
C7_Witness ==
    /\ pc = "binarized" /\ one_hot.done
    /\ ex_heads = << <<2>>, <<0>> >>
    /\ one_hot.value = << <<0, 0, 1>>, <<1, 0, 0>> >>

\* the rows of the run being read are the last len(words) rows taken
RowOfCur(k) == file[pos - Len(cur.words) + k]

\* the list a head cell stands for: none for "_", else its integers
CellHeads(cell) ==
    IF cell = Underscore THEN <<>>
    ELSE [q \in 1..Len(Split(cell, "~")) |-> IntOf(Split(cell, "~")[q])]

\* the list a head_word cell stands for: none for "_", else its entries
CellHeadWords(cell) == IF cell = Underscore THEN <<>> ELSE Split(cell, "~")

\* C8: a head cell "_" gives the token an empty head list and any other
\* head cell the integers between its "~", in order; a head_word cell "_"
\* gives an empty list and any other cell its entries between "~".  (Every
\* head cell of the files is "_" or integers, so every row has such lists.)
C8_HeadCells ==
    /\ rpc # "raised"
    /\ rpc = "rows" =>
         \A k \in 1..Len(cur.words) :
            /\ cur.heads[k] = CellHeads(RowOfCur(k)[3])
            /\ cur.head_words[k] = CellHeadWords(RowOfCur(k)[4])

\* the rows after the header that are not separators
DataIdx == {j \in 2..Len(file) : file[j] # empty_row}

\* the first rows of the maximal runs of such rows
RunStarts == {j \in DataIdx : j - 1 \notin DataIdx}

\* the last row of the run that starts at row j
RunEnd(j) == CHOOSE e \in j..Len(file) :
                /\ \A i \in j..e : i \in DataIdx
                /\ e + 1 \notin DataIdx

\* the first row of the k-th run
KthStart(k) == CHOOSE j \in RunStarts : Cardinality({i \in RunStarts : i < j}) = k - 1

\* the examples are the runs, in file order, with guids <mode>-1, <mode>-2, ...
ExamplesAreRuns ==
    /\ Len(examples) = Cardinality(RunStarts)
    /\ \A k \in 1..Len(examples) :
         LET j == KthStart(k)
             n == RunEnd(j) - j + 1
         IN  /\ examples[k].guid = mode \o "-" \o ToString(k)
             /\ examples[k].words = [i \in 1..n |-> file[j + i - 1][1]]
             /\ examples[k].labels = [i \in 1..n |-> file[j + i - 1][2]]
             /\ examples[k].pos_tags = [i \in 1..n |-> file[j + i - 1][6]]
             /\ Len(examples[k].heads) = n
             /\ Len(examples[k].sub_toks) = n
             /\ n >= 1
    /\ \A k1, k2 \in 1..Len(examples) :
         k1 # k2 => examples[k1].guid # examples[k2].guid

\* C9: the call returns one example per maximal run of rows that are not
\* separators, in file order, the k-th with guid <mode>-k: it ends by
\* returning, and what it returns are the runs.
C9_OneExamplePerRun ==
    rpc \in {"done", "raised"} => (rpc = "done" /\ ExamplesAreRuns)

\* what holds of the calls that do return
ReturnedExamplesAreRuns == rpc = "done" => ExamplesAreRuns

\* two runs were returned from a file with repeated separators
TwoRunsReturned ==
    /\ rpc = "done" /\ Len(examples) = 2
    /\ Len(file) = 4 /\ file[3] = empty_row

\* an example has been converted, or its conversion has raised
Converted ==
    \/ fpc \in {"raised_heads", "raised_lengths"}
    \/ fpc = "loop" /\ n_features > 0

\* S: the sum over the words of max(1, len(sub_tokens[i]))
RECURSIVE SubTokenSum(_)
SubTokenSum(i) == IF i = 0 THEN 0 ELSE SubTokenSum(i - 1) + Max(1, Len(sub_tokens[i]))

\* every word has as many sub-tokens as the tokenizer made of it, at least one
TokenizerAgrees ==
    \A i \in 1..Len(sub_tokens) :
       Len(sub_tokens[i]) >= 1 /\ Len(word_tokens[i]) = Len(sub_tokens[i])

\* C1: apply_heads_to_subtokens(heads, sub_tokens) returns a square matrix
\* of side 1 + S, S the sum over the words of max(1, len(sub_tokens[i]));
\* so the assertion of line 230 holds when every word has as many
\* sub-tokens as the tokenizer made of it (at least one).
C1_SquareOfSubtokens ==
    Converted =>
       LET side == 1 + SubTokenSum(Len(sub_tokens))
       IN  /\ binary_heads.shape = <<side, side>>
           /\ Len(binary_heads.data) = side
           /\ \A r \in 1..side : Len(binary_heads.data[r]) = side
           /\ TokenizerAgrees => fpc # "raised_heads"

\* C1 witness: two words of two and one sub-tokens, as the tokenizer makes
\* them, passed the assertion with a 4 x 4 matrix
C1_Witness ==
    /\ Converted /\ fpc = "loop" /\ TokenizerAgrees
    /\ Len(sub_tokens) = 2
    /\ Len(sub_tokens[1]) = 2 /\ Len(sub_tokens[2]) = 1
    /\ binary_heads.shape = <<4, 4>>

\* C10: for an example that passes the assertion of line 230, with a
\* tokenizer that adds 2 special tokens and max_seq_length >= 2, the four
\* lists have length max_seq_length and none of the four assertions fails.
C10_FeatureLengths ==
    (Converted /\ fpc # "raised_heads"
        /\ special_tokens_count = 2 /\ max_seq_length >= 2)
    => /\ fpc # "raised_lengths"
       /\ Len(input_features.input_ids) = max_seq_length
       /\ Len(input_features.attention_mask) = max_seq_length
       /\ Len(input_features.token_type_ids) = max_seq_length
       /\ Len(input_features.label_ids) = max_seq_length
       /\ LengthsOk(loc, max_seq_length)

\* the number of tokens of the example before line 236
TokenCount == TotalLen(word_tokens)

\* C10 witness: an example of more tokens than max_seq_length - 2 was cut
\* and converted
C10_Witness ==
    /\ Converted /\ fpc = "loop"
    /\ special_tokens_count = 2 /\ max_seq_length = 3
    /\ TokenCount = 3
    /\ input_features.input_ids = <<101, 1011, 102>>
    /\ input_features.label_ids = <<0 - 100, 1, 0 - 100>>

\* ----------------------------------------------------------------- C11
\* the training loop has been reached
TrainingBegun == tpc \in {"begin", "done"}

\* C11: before the first training epoch the session's variables are set by
\* exactly one of two actions. The step of lines 151-156 calls
\* model_saver.restore, and not sess.run(init), exactly when a checkpoint
\* state exists in the model directory, restore_training is set and the
\* checkpoint file or its ".index" file exists; otherwise it calls
\* sess.run(init), and not restore. No other step calls either, so that when
\* the loop of line 162 is reached exactly one of the two was called, once.
C11_RestoreXorInit ==
    [][/\ tpc = "choose" =>
            IF fs.state /\ restore_training /\ (fs.data \/ fs.index)
            THEN restored' = restored + 1 /\ initialized' = initialized
            ELSE initialized' = initialized + 1 /\ restored' = restored
       /\ tpc # "choose" => restored' = restored /\ initialized' = initialized
       /\ TrainingBegun' => restored' + initialized' = 1]_vars

\* an epoch has run on variables restored from a checkpoint of which only
\* the ".index" file exists
C11_Witness ==
    /\ tpc = "begin" /\ epoch = 1
    /\ restored = 1 /\ initialized = 0
    /\ restore_training /\ ckpt = "CheckpointState" /\ ~fs.data /\ fs.index

\* ----------------------------------------------------------------- C12
\* C12: every row write_summary_tables gives to the csv writer (the header,
\* the sub-header, the baseline, model and delta rows of the seeds average,
\* and for each seed the blank row, the seed header and its baseline, model
\* and delta rows) has as many columns as the header, the first row, for
\* every cfg.data, also when it holds no cross-domain or no in-domain
\* dataset; a call that returns has written 5 rows and 5 more for each seed.
C12_RowsHaveHeaderColumns ==
    /\ \A q \in 1..Len(csv_rows) : Len(csv_rows[q]) = Len(csv_rows[1])
    /\ wpc = "done" => Len(csv_rows) = 5 + 5 * Len(seeds)

\* the call has returned for two in-domain datasets, no cross-domain one
\* and one seed: 10 rows of 1 + 1 + 2 * 2 + 2 columns
C12_Witness ==
    /\ wpc = "done"
    /\ Len(data) = 2 /\ \A q \in 1..Len(data) : ~data[q].cross
    /\ Len(seeds) = 1
    /\ Len(csv_rows) = 10
    /\ Len(csv_rows[10]) = 8

====
